---- MODULE Spec2Model ----
(***************************************************************************)
(* A model of desktus: the status-bar binary (src/main.rs), the library   *)
(* writer serialize_blocks with its throttle (src/serialize.rs,            *)
(* src/util.rs), the click-event reader (src/event.rs), and functions of   *)
(* the two run on their inputs.                                            *)
(*                                                                         *)
(* The programs share no state.  The variable `program`, fixed by Init,    *)
(* says which of them a behaviour runs, so the reachable states are the    *)
(* union of the programs' states.                                          *)
(***************************************************************************)
EXTENDS Integers, Sequences, FiniteSets, TLC

(***************************************************************************)
(* Bounds of the model.                                                    *)
(***************************************************************************)
\* longest input read by the event reader, in lines
MaxLines == 2
\* last instant of the clock, in clock units
MaxTime == 4
\* number of items the upstream of the library throttle may produce
MaxItems == 3

(***************************************************************************)
(* Option values (Rust Option / Result<_, ()>).                            *)
(***************************************************************************)
None == [some |-> FALSE]

Some(x) == [some |-> TRUE, val |-> x]

(***************************************************************************)
(* The application message type M.  M is a type parameter of the library; *)
(* the model instantiates it with an enum of three variants: a unit        *)
(* variant, a variant carrying a u8 and a variant carrying a u16.          *)
(***************************************************************************)
PayloadLen(variant) == CASE variant = 0 -> 0 [] variant = 1 -> 1 [] variant = 2 -> 2

NumVariants == 3

Messages ==
    {[variant |-> 0, value |-> 0]}
        \cup {[variant |-> 1, value |-> v] : v \in {0, 255}}
        \cup {[variant |-> 2, value |-> v] : v \in {258, 65535}}

(***************************************************************************)
(* bincode (fixed-width little-endian integers, u32 variant index).        *)
(***************************************************************************)
RECURSIVE ToLE(_, _)
ToLE(n, width) ==
    IF width = 0 THEN <<>> ELSE <<n % 256>> \o ToLE(n \div 256, width - 1)

RECURSIVE FromLE(_)
FromLE(bytes) ==
    IF bytes = <<>> THEN 0 ELSE Head(bytes) + 256 * FromLE(Tail(bytes))

BincodeSerialize(m) ==
    ToLE(m.variant, 4) \o ToLE(m.value, PayloadLen(m.variant))

\* bincode reads the payload of a variant only if all its bytes are there
BincodeDeserializeShort(bytes) ==
    IF Len(bytes) < 4 THEN None
    ELSE LET variant == FromLE(SubSeq(bytes, 1, 4))
             last == IF Len(bytes) < 4 + PayloadLen(variant)
                     THEN Len(bytes) ELSE 4 + PayloadLen(variant)
         IN  IF variant >= NumVariants THEN None
             ELSE Some([variant |-> variant,
                        value |-> FromLE(SubSeq(bytes, 5, last))])

BincodeDeserialize(bytes) ==
    IF Len(bytes) < 4 THEN None
    ELSE LET variant == FromLE(SubSeq(bytes, 1, 4)) IN
         IF variant >= NumVariants THEN None
         ELSE IF Len(bytes) < 4 + PayloadLen(variant) THEN None
         ELSE Some([variant |-> variant,
                    value |-> FromLE(SubSeq(bytes, 5, 4 + PayloadLen(variant)))])

(***************************************************************************)
(* base64, standard alphabet, with padding.  A string is a sequence of     *)
(* one-character strings.                                                  *)
(***************************************************************************)
Alphabet ==
    << "A","B","C","D","E","F","G","H","I","J","K","L","M","N","O","P",
       "Q","R","S","T","U","V","W","X","Y","Z","a","b","c","d","e","f",
       "g","h","i","j","k","l","m","n","o","p","q","r","s","t","u","v",
       "w","x","y","z","0","1","2","3","4","5","6","7","8","9","+","/" >>

Pad == "="

Symbol(sextet) == Alphabet[sextet + 1]

IsSymbol(c) == \E i \in 1..64 : Alphabet[i] = c

Sextet(c) == (CHOOSE i \in 1..64 : Alphabet[i] = c) - 1

RECURSIVE Base64Encode(_)
Base64Encode(bytes) ==
    IF Len(bytes) = 0 THEN <<>>
    ELSE IF Len(bytes) = 1 THEN
        LET v == bytes[1] * 16 IN
        <<Symbol(v \div 64), Symbol(v % 64), Pad, Pad>>
    ELSE IF Len(bytes) = 2 THEN
        LET v == (bytes[1] * 256 + bytes[2]) * 4 IN
        <<Symbol(v \div 4096), Symbol((v \div 64) % 64), Symbol(v % 64), Pad>>
    ELSE
        LET v == bytes[1] * 65536 + bytes[2] * 256 + bytes[3] IN
        <<Symbol(v \div 262144), Symbol((v \div 4096) % 64),
          Symbol((v \div 64) % 64), Symbol(v % 64)>>
            \o Base64Encode(SubSeq(bytes, 4, Len(bytes)))

\* number of trailing padding characters of s
RECURSIVE PadCount(_)
PadCount(s) ==
    IF Len(s) > 0 /\ s[Len(s)] = Pad THEN 1 + PadCount(SubSeq(s, 1, Len(s) - 1))
    ELSE 0

\* the bytes of a sequence of symbols whose length is 0, 2 or 3 modulo 4 and
\* whose unused trailing bits are zero; None otherwise
RECURSIVE DecodeSymbols(_)
DecodeSymbols(s) ==
    IF Len(s) = 0 THEN Some(<<>>)
    ELSE IF Len(s) = 1 THEN None
    ELSE IF Len(s) = 2 THEN
        LET v == Sextet(s[1]) * 64 + Sextet(s[2]) IN
        IF v % 16 # 0 THEN None ELSE Some(<<v \div 16>>)
    ELSE IF Len(s) = 3 THEN
        LET v == Sextet(s[1]) * 4096 + Sextet(s[2]) * 64 + Sextet(s[3]) IN
        IF v % 4 # 0 THEN None ELSE Some(<<v \div 1024, (v \div 4) % 256>>)
    ELSE
        LET v == Sextet(s[1]) * 262144 + Sextet(s[2]) * 4096
                    + Sextet(s[3]) * 64 + Sextet(s[4])
            rest == DecodeSymbols(SubSeq(s, 5, Len(s)))
        IN  IF rest.some
            THEN Some(<<v \div 65536, (v \div 256) % 256, v % 256>> \o rest.val)
            ELSE None

Base64Decode(s) ==
    LET pad == PadCount(s)
        body == SubSeq(s, 1, Len(s) - pad)
    IN  IF Len(s) % 4 # 0 \/ pad > 2 THEN None
        ELSE IF \E i \in 1..Len(body) : ~IsSymbol(body[i]) THEN None
        ELSE DecodeSymbols(body)

(***************************************************************************)
(* Blocks and their wire form (library).                                   *)
(***************************************************************************)
\* an Srgb<u8> colour
Rgb(r, g, b) == [red |-> r, green |-> g, blue |-> b]

\* Block::new: no background, no border
BlockNew(text, foreground, message) ==
    [message |-> message, text |-> text, foreground |-> foreground,
     background |-> None, border |-> None]

\* the `name` of the WireBlock made from Block b
WireNameNoPad(b) ==
    LET s == Base64Encode(BincodeSerialize(b.message)) IN
    SubSeq(s, 1, Len(s) - PadCount(s))

WireName(b) == Base64Encode(BincodeSerialize(b.message))

(***************************************************************************)
(* JSON values and the serialised form of a library block.                 *)
(***************************************************************************)
JStr(s) == [t |-> "string", v |-> s]

JNum(n) == [t |-> "number", v |-> n]

JArr(a) == [t |-> "array", v |-> a]

JBool(b) == [t |-> "bool", v |-> b]

HexDigits ==
    <<"0","1","2","3","4","5","6","7","8","9","a","b","c","d","e","f">>

\* {:x}, without the width and the zero flag
Hex2Plain(n) ==
    IF n < 16 THEN <<HexDigits[n + 1]>>
    ELSE <<HexDigits[(n \div 16) + 1], HexDigits[(n % 16) + 1]>>

\* {:02x}
Hex2(n) == <<HexDigits[(n \div 16) + 1], HexDigits[(n % 16) + 1]>>

\* impl Serialize for Color: "#rrggbb"
ColorString(c) == <<"#">> \o Hex2(c.red) \o Hex2(c.green) \o Hex2(c.blue)

\* impl From<Block<M>> for WireBlock
WireBlockFrom(b) ==
    [name |-> WireName(b),
     instance |-> None,
     full_text |-> b.text,
     short_text |-> None,
     color |-> b.foreground,
     background |-> b.background,
     border |-> b.border,
     urgent |-> FALSE,
     separator |-> FALSE]

JNull == [t |-> "null"]

\* skip_serializing_if = "Option::is_none" leaves out the fields not set
SerializeWireBlockNulls(w) ==
    [name |-> JStr(w.name),
     full_text |-> JStr(w.full_text),
     color |-> JStr(ColorString(w.color)),
     urgent |-> JBool(w.urgent),
     separator |-> JBool(w.separator),
     instance |-> IF w.instance.some THEN JStr(w.instance.val) ELSE JNull,
     short_text |-> IF w.short_text.some THEN JStr(w.short_text.val) ELSE JNull,
     background |-> IF w.background.some
                    THEN JStr(ColorString(w.background.val)) ELSE JNull,
     border |-> IF w.border.some THEN JStr(ColorString(w.border.val)) ELSE JNull]

\* the derived Serialize of WireBlock, as a JSON object
SerializeWireBlock(w) ==
    [name |-> JStr(w.name),
     full_text |-> JStr(w.full_text),
     color |-> JStr(ColorString(w.color)),
     urgent |-> JBool(w.urgent),
     separator |-> JBool(w.separator)]
        @@ (IF w.instance.some THEN "instance" :> JStr(w.instance.val) ELSE <<>>)
        @@ (IF w.short_text.some THEN "short_text" :> JStr(w.short_text.val) ELSE <<>>)
        @@ (IF w.background.some
            THEN "background" :> JStr(ColorString(w.background.val)) ELSE <<>>)
        @@ (IF w.border.some
            THEN "border" :> JStr(ColorString(w.border.val)) ELSE <<>>)

\* a line of output: fixed text, or a JSON array of blocks, with or without
\* a comma after it
TextLine(s) == [text |-> s]

SnapshotLine(objects, comma) == [blocks |-> objects, comma |-> comma]

Header == TextLine("{ \"version\": 1 }")

Preamble == <<Header, TextLine("[")>>

\* the postamble is the empty array and the closing bracket
PostambleBracketOnly == <<TextLine("]")>>

Postamble == <<TextLine("[]"), TextLine("]")>>

(***************************************************************************)
(* The click-event reader.  An input line is a sequence of tokens: white  *)
(* space, a comma, an opening bracket, junk, or a whole JSON object.  An   *)
(* object is a function from its keys to JSON values.                      *)
(***************************************************************************)
TokWs == [t |-> "ws"]

TokComma == [t |-> "comma"]

TokBracket == [t |-> "lbracket"]

TokJunk == [t |-> "junk"]

TokObj(o) == [t |-> "object", v |-> o]

\* the derived Deserialize of WireEvent: the three fields are required,
\* other keys are ignored; a u32 takes no negative number
DeserializeWireEvent(o) ==
    IF /\ {"name", "button", "modifiers"} \subseteq DOMAIN o
       /\ o.name.t = "string"
       /\ o.button.t = "number"
       /\ o.button.v >= 0
       /\ o.modifiers.t = "array"
       /\ \A i \in 1..Len(o.modifiers.v) : o.modifiers.v[i].t = "string"
    THEN Some([name |-> o.name.v,
               button |-> o.button.v,
               modifiers |-> [i \in 1..Len(o.modifiers.v) |-> o.modifiers.v[i].v]])
    ELSE None

\* s without its leading white space
RECURSIVE SkipWs(_)
SkipWs(s) == IF s # <<>> /\ Head(s) = TokWs THEN SkipWs(Tail(s)) ELSE s

\* serde_json::from_str::<WireEvent>: white space, one value, white space,
\* end of input
FromStr(line) ==
    LET s == SkipWs(line) IN
    IF s = <<>> \/ Head(s).t # "object" THEN None
    ELSE IF SkipWs(Tail(s)) # <<>> THEN None
    ELSE DeserializeWireEvent(Head(s).v)

parse_button_scroll(n) ==
    CASE n = 1 -> Some("MouseLeft")
      [] n = 2 -> Some("MouseMiddle")
      [] n = 3 -> Some("MouseRight")
      [] n = 4 -> Some("ScrollUp")
      [] n = 5 -> Some("ScrollDown")
      [] OTHER -> None

parse_modifier(s) == IF s = "Shift" THEN Some("Shift") ELSE None

parse_button(n) ==
    CASE n = 1 -> Some("MouseLeft")
      [] n = 2 -> Some("MouseMiddle")
      [] n = 3 -> Some("MouseRight")
      [] OTHER -> None

\* filter_map keeps every recognised modifier, wherever it stands in the list
RECURSIVE FilterUntilUnknown(_)
FilterUntilUnknown(mods) ==
    IF mods = <<>> THEN <<>>
    ELSE LET m == parse_modifier(Head(mods)) IN
         IF m.some THEN <<m.val>> \o FilterUntilUnknown(Tail(mods)) ELSE <<>>

\* modifiers.into_iter().filter_map(parse_modifier).collect()
RECURSIVE FilterModifiers(_)
FilterModifiers(mods) ==
    IF mods = <<>> THEN <<>>
    ELSE LET m == parse_modifier(Head(mods)) IN
         (IF m.some THEN <<m.val>> ELSE <<>>) \o FilterModifiers(Tail(mods))

\* the message of a name: base64, then bincode
DecodeMessage(name) ==
    LET bytes == Base64Decode(name) IN
    IF bytes.some THEN BincodeDeserialize(bytes.val) ELSE None

\* impl TryFrom<WireEvent> for Event<M>
TryFrom(e) ==
    LET message == DecodeMessage(e.name)
        button == parse_button(e.button)
    IN  IF ~message.some THEN None
        ELSE IF ~button.some THEN None
        ELSE Some([message |-> message.val,
                   button |-> button.val,
                   modifiers |-> FilterModifiers(e.modifiers)])

\* the closure of events(): one item of the line stream to at most one event
EventOfLine(item) ==
    IF ~item.some THEN None
    ELSE LET wire == FromStr(item.val) IN
         IF wire.some THEN TryFrom(wire.val) ELSE None

(***************************************************************************)
(* The inputs of the event reader.                                         *)
(***************************************************************************)
White == Rgb(255, 255, 255)

\* the name the writer puts on the wire for a block carrying message m
NameOf(m) == WireName(BlockNew("text", White, m))

Obj(name, button, modifiers) ==
    [name |-> JStr(name), button |-> JNum(button),
     modifiers |-> JArr([i \in 1..Len(modifiers) |-> JStr(modifiers[i])])]

\* the same object without its modifiers field
ObjNoModifiers(name, button) == [name |-> JStr(name), button |-> JNum(button)]

\* the same object with the further fields a bar sends
ObjExtra(name, button, modifiers) ==
    [name |-> JStr(name), button |-> JNum(button),
     modifiers |-> JArr([i \in 1..Len(modifiers) |-> JStr(modifiers[i])]),
     instance |-> JStr(<<"i">>), x |-> JNum(10)]

UnitMessage == [variant |-> 0, value |-> 0]

\* names no message decodes from: not base64, a payload cut short, a variant
\* index outside the schema of M
NotBase64 == <<"!", "!", "!", "!">>

Truncated == Base64Encode(ToLE(1, 4))

WrongSchema == Base64Encode(ToLE(7, 4))

BadNames == {NotBase64, Truncated, WrongSchema}

ModifierLists == {<<>>, <<"Shift">>, <<"Control", "Shift", "Mod4">>}

\* objects with all three fields, a decodable name and a mapped button
GoodObjects ==
    {Obj(NameOf(m), 1, <<>>) : m \in Messages}
        \cup {Obj(NameOf(UnitMessage), b, <<"Shift">>) : b \in {2, 3}}
        \cup {Obj(NameOf(UnitMessage), 1, <<"Control", "Shift", "Mod4">>),
              ObjExtra(NameOf(UnitMessage), 3, <<>>)}

WellFormedLines ==
    {<<TokObj(o)>> : o \in GoodObjects}
        \cup {<<TokWs, TokObj(Obj(NameOf(UnitMessage), 1, <<>>)), TokWs>>}

UnparseableLines == {<<TokJunk>>, <<TokBracket>>, <<>>}

UnmappedButtonLines ==
    {<<TokObj(Obj(NameOf(UnitMessage), b, <<>>))>> : b \in {0, 4, 99}}

BadNameLines == {<<TokObj(Obj(n, 1, <<>>))>> : n \in BadNames}

SeparatorLines ==
    {<<TokComma, TokObj(Obj(NameOf(UnitMessage), 1, <<>>))>>,
     <<TokObj(Obj(NameOf(UnitMessage), 2, <<"Shift">>)), TokComma>>}

NoModifiersLines ==
    {<<TokObj(ObjNoModifiers(NameOf(m), 1))>> : m \in {UnitMessage}}

\* further names that are not base64: a length that is no multiple of
\* four, padding in the wrong place, unused bits set
MalformedNames ==
    {<<"A", "A", "A", "A", "A">>, <<"A", "=", "=", "=">>, <<"A", "B", "=", "=">>}

\* further names of payloads cut short: no byte at all, half a variant
\* index, a u16 with one byte of its two
TruncatedNames ==
    {<<>>, Base64Encode(<<1, 0, 0>>), Base64Encode(ToLE(2, 4) \o <<255>>)}

\* further names of payloads of another schema: a variant index M does not
\* have, with or without a payload
MismatchedNames ==
    {Base64Encode(ToLE(NumVariants, 4)), Base64Encode(<<0, 0, 0, 1, 1, 2>>)}

UndecodableNames == MalformedNames \cup TruncatedNames \cup MismatchedNames

\* clicks of the middle button, with Shift, on blocks of such names
UndecodableLines == {<<TokObj(Obj(n, 2, <<"Shift">>))>> : n \in UndecodableNames}

\* further button codes outside 1..3: the scroll wheel, a large code, and a
\* code that is no u32
OtherButtons == {5, 2147483647, -1}

OtherButtonLines ==
    {<<TokObj(Obj(NameOf(m), b, <<>>))>> :
        m \in {[variant |-> 1, value |-> 255]}, b \in OtherButtons}

\* lists of modifiers with entries the reader does not know
MixedModifiers ==
    {<<"shift">>, <<"Shift", "Mod1", "Shift">>, <<"Mod1", "Control">>}

MixedModifierLines ==
    {<<TokObj(Obj(NameOf(UnitMessage), b, mods))>> :
        b \in {3}, mods \in MixedModifiers}

Lines ==
    WellFormedLines \cup UnparseableLines \cup UnmappedButtonLines
        \cup BadNameLines \cup SeparatorLines \cup NoModifiersLines
        \cup UndecodableLines \cup OtherButtonLines \cup MixedModifierLines

\* the items of the line stream: a line, or a read error
StdinItems == {Some(l) : l \in Lines} \cup {None}

(***************************************************************************)
(* State.                                                                  *)
(***************************************************************************)
VARIABLES
    program,      \* which program runs: "events", "lib", "main", ...
    now,          \* the clock, in units of half a second
    evPc,         \* event reader: "reading" or "done"
    linesRead,    \* event reader: the items read from standard input so far
    results,      \* event reader: what the closure returned for each item
    events,       \* event reader: the events the stream has yielded
    eof,          \* event reader: standard input has been closed
    sinkError,    \* a write to standard output has failed
    libPc,        \* serialize_blocks: "start", "loop", "done" or "panicked"
    upPending,    \* the stream `blocks`: the items it has ready, oldest first
    upCount,      \* the stream `blocks`: how many items it has produced
    upClosed,     \* the stream `blocks`: it yields None once upPending is empty
    upDone,       \* Zip: stream1.is_done()
    queued1,      \* Zip: the item taken from `blocks`, waiting for a tick
    queued2,      \* Zip: the tick taken from ticks(), waiting for an item
    tickDeadline, \* ticks(): the deadline of the interval
    libOut,       \* serialize_blocks: the lines written
    libLog,       \* serialize_blocks: item, tick and instant of each snapshot line
    pc,           \* main: "start", "await", "render", "flush", "post", "done"
                  \* or "panicked"
    sigint,       \* main: the interrupt has fired, the ctrl_c future is ready
    blocks,       \* write_blocks: the last batch of each source
    refresh_time, \* write_blocks: the instant of the last refresh
    srcPc,        \* throttle of each source: "tick", "next" or "done"
    srcDeadline,  \* throttle of each source: the deadline of its interval
    srcGen,       \* each source: how many items its stream has yielded
    out,          \* main: the lines written to standard output
    partial,      \* main: the line being written, not yet ended
    lastBatch,    \* history: the batch each source sent last, if any
    arrivals,     \* history: source and instant of each arrival
    writes,       \* history: instant and lastBatch of each snapshot line
    interruptedAt, \* history: where main was when the interrupt fired
    colorArg,     \* Color::serialize: the colour it was called on, if any
    colorOut,     \* Color::serialize: the string it gave the serializer
    cpuTimes,     \* render_cpu_usage: the counters of the system
    old_stats,    \* render_cpu_usage: the state of scan, the reading before
    cpuOut,       \* render_cpu_usage: outcome and batch of each reading
    memOut,       \* render_memory_usage: outcome and batch of each reading
    viewArg,      \* DiskView/MemoryView::render: the view it was called on
    viewOut,      \* DiskView/MemoryView::render: the block, or the panic
    nicUp,        \* render_nic_info: which interfaces of the system are up
    nicCounters,  \* render_nic_info: the byte counters of each interface
    netPc,        \* render_nic_info: "start", "stream" or "panicked"
    old_snapshot, \* render_nic_info: the state of unfold, the capture before
    netOut        \* render_nic_info: the captures and difference of the last item

evVars == <<evPc, linesRead, results, events, eof>>

libVars == <<libPc, upPending, upCount, upClosed, upDone, queued1, queued2,
             tickDeadline, libOut, libLog>>

mainVars == <<pc, sigint, blocks, refresh_time, srcPc, srcDeadline, srcGen,
              out, partial, lastBatch, arrivals, writes, interruptedAt>>

colVars == <<colorArg, colorOut>>

cpuVars == <<cpuTimes, old_stats, cpuOut>>

memVars == <<memOut>>

\* the state of the programs that run one function on its inputs
viewVars == <<viewArg, viewOut>>

netVars == <<nicUp, nicCounters, netPc, old_snapshot, netOut>>

calcVars == <<colVars, cpuVars, memVars, viewVars, netVars>>

vars == <<program, now, sinkError, evVars, libVars, mainVars, calcVars>>

(***************************************************************************)
(* events(): LinesStream(stdin).filter_map(closure).                       *)
(***************************************************************************)
\* filter_map goes on with the next line whatever the closure returned
AfterLineStop(e) == IF e.some THEN "reading" ELSE "done"

AfterLine(e) == "reading"

\* filter_map yields the event of a line, if it has one, after the events
\* of the lines before it
YieldNewestFirst(evs, e) == IF e.some THEN <<e.val>> \o evs ELSE evs

Yield(evs, e) == IF e.some THEN Append(evs, e.val) ELSE evs

ReadLine(item) ==
    /\ program = "events"
    /\ evPc = "reading"
    /\ Len(linesRead) < MaxLines
    /\ LET e == EventOfLine(item) IN
        /\ linesRead' = Append(linesRead, item)
        /\ results' = Append(results, e)
        /\ events' = Yield(events, e)
        /\ evPc' = AfterLine(e)
    /\ UNCHANGED <<program, calcVars, sinkError, now, eof, libVars, mainVars>>

\* standard input is closed: the line stream ends, and so does events()
EndOfInput ==
    /\ program = "events"
    /\ evPc = "reading"
    /\ evPc' = "done"
    /\ eof' = TRUE
    /\ UNCHANGED <<program, calcVars, sinkError, now, linesRead, results, events, libVars, mainVars>>

EventsInit ==
    /\ evPc = "reading"
    /\ linesRead = <<>>
    /\ results = <<>>
    /\ events = <<>>
    /\ eof = FALSE

EventsNext == EndOfInput \/ \E item \in StdinItems : ReadLine(item)

(***************************************************************************)
(* The clock.  It starts with the program.  Time passes only while the     *)
(* program waits: none passes inside the synchronous part of an iteration  *)
(* of write_blocks (from the reading of the clock to the end of println),  *)
(* nor between the interrupt, which wakes main at once, and the end of     *)
(* main.                                                                   *)
(***************************************************************************)
Tick ==
    /\ program \in {"lib", "main"}
    /\ now < MaxTime
    /\ program = "lib" => libPc = "loop"
    /\ program = "main" => pc = "await" /\ ~sigint
    /\ now' = now + 1
    /\ UNCHANGED <<program, calcVars, sinkError, evVars, libVars, mainVars>>

(***************************************************************************)
(* println, when the write to standard output fails: it panics.  The panic *)
(* unwinds the future it occurs in; nothing after the println is run.      *)
(***************************************************************************)
\* the error is dropped and the loop goes on
IgnoreWriteError == "await"

AfterWriteError == "panicked"

(***************************************************************************)
(* serialize_blocks(blocks): preamble, one line for each item of           *)
(* throttle(1 s, blocks), postamble.                                       *)
(***************************************************************************)
\* Duration::from_secs(1), in clock units
LibPeriod == 2

Red == Rgb(255, 0, 128)

\* the k-th item of `blocks`: a batch of one block that carries k as its
\* text; every second one has a background, every third one a border
BatchOf(k) ==
    << [BlockNew(k, White, [variant |-> 1, value |-> k])
            EXCEPT !.background = IF k % 2 = 0 THEN Some(Red) ELSE None,
                   !.border = IF k % 3 = 0 THEN Some(White) ELSE None] >>

\* the closure of for_each: the line of a batch
LibLine(batch) ==
    SnapshotLine([i \in 1..Len(batch) |-> SerializeWireBlock(WireBlockFrom(batch[i]))],
                 FALSE)

\* the lines of the items the stream may produce, each computed once
LinesOfItems == [k \in 1..MaxItems |-> LibLine(BatchOf(k))]

\* LibLine(batch), for a batch of the stream
LineOf(batch) == LinesOfItems[batch[1].text]

\* the next deadline of an interval with MissedTickBehavior::Skip whose tick
\* of deadline `timeout` is taken at `t`
SkipNextTimeout(timeout, t, period) ==
    IF t > timeout THEN t + period - ((t - timeout) % period)
    ELSE timeout + period

\* polling `blocks` when it has items ready: the oldest one comes out
PollLatest(pending) == [item |-> pending[Len(pending)], rest |-> <<>>]

PollPeek(pending) == [item |-> Head(pending), rest |-> pending]

PollNewest(pending) ==
    [item |-> pending[Len(pending)], rest |-> SubSeq(pending, 1, Len(pending) - 1)]

PollUpstream(pending) == [item |-> Head(pending), rest |-> Tail(pending)]

\* the stream `blocks` gets one more item ready
Produce ==
    /\ program = "lib"
    /\ libPc # "done"
    /\ ~upClosed
    /\ upCount < MaxItems
    /\ upCount' = upCount + 1
    /\ upPending' = Append(upPending, BatchOf(upCount + 1))
    /\ UNCHANGED <<program, calcVars, sinkError, now, evVars, libPc, upClosed, upDone, queued1,
                   queued2, tickDeadline, libOut, libLog, mainVars>>

\* the stream `blocks` has no more items to come
Close ==
    /\ program = "lib"
    /\ libPc # "done"
    /\ ~upClosed
    /\ upClosed' = TRUE
    /\ UNCHANGED <<program, calcVars, sinkError, now, evVars, libPc, upPending, upCount, upDone,
                   queued1, queued2, tickDeadline, libOut, libLog, mainVars>>

\* the two lines of the preamble; throttle creates the interval, whose
\* first tick is due at once
LibStart ==
    /\ program = "lib"
    /\ libPc = "start"
    /\ libOut' = libOut \o Preamble
    /\ tickDeadline' = now
    /\ libPc' = "loop"
    /\ UNCHANGED <<program, calcVars, sinkError, now, evVars, upPending, upCount, upClosed, upDone,
                   queued1, queued2, libLog, mainVars>>

\* Zip polls `blocks` only when it holds no item of it, and sees its end
\* then, when `blocks` has nothing left
EndsWithItemHeld(held, pending, closed) == pending = <<>> /\ closed

StreamEnds(held, pending, closed) == ~held.some /\ pending = <<>> /\ closed

\* one poll of for_each: Zip::poll_next, then the closure on the pair it
\* yields, or the postamble when it yields None
LibPoll ==
    /\ program = "lib"
    /\ libPc = "loop"
    /\ LET take == ~queued1.some /\ upPending # <<>>
           ended == StreamEnds(queued1, upPending, upClosed)
           fire == ~queued2.some /\ now >= tickDeadline
           polled == IF take THEN PollUpstream(upPending)
                     ELSE [item |-> <<>>, rest |-> upPending]
           q1 == IF take THEN Some(polled.item) ELSE queued1
           q2 == IF fire THEN Some(tickDeadline) ELSE queued2
       IN
        /\ take \/ ended \/ fire
        /\ upPending' = polled.rest
        /\ upDone' = (upDone \/ ended)
        /\ tickDeadline' = IF fire THEN SkipNextTimeout(tickDeadline, now, LibPeriod)
                           ELSE tickDeadline
        /\ IF q1.some /\ q2.some
           THEN /\ queued1' = None
                /\ queued2' = None
                /\ libOut' = Append(libOut, LineOf(q1.val))
                /\ libLog' = Append(libLog, [item |-> q1.val, tick |-> q2.val,
                                             at |-> now, latest |-> upCount])
                /\ libPc' = "loop"
           ELSE /\ queued1' = q1
                /\ queued2' = q2
                /\ libLog' = libLog
                /\ IF upDone'
                   THEN libOut' = libOut \o Postamble /\ libPc' = "done"
                   ELSE libOut' = libOut /\ libPc' = "loop"
    /\ UNCHANGED <<program, calcVars, sinkError, now, evVars, upCount, upClosed, mainVars>>

\* Zip::poll_next yields a pair: an item is held or taken now, and a tick
\* is held or fires now
ZipYields ==
    /\ queued1.some \/ upPending # <<>>
    /\ queued2.some \/ now >= tickDeadline

\* the println of the closure of for_each fails (the reader of the pipe has
\* gone): println panics, and serialize_blocks is dropped where it stands
LibPrintFails ==
    /\ program = "lib"
    /\ libPc = "loop"
    /\ ZipYields
    /\ libPc' = AfterWriteError
    /\ sinkError' = TRUE
    /\ UNCHANGED <<program, calcVars, now, evVars, upPending, upCount, upClosed,
                   upDone, queued1, queued2, tickDeadline, libOut, libLog, mainVars>>

LibInit ==
    /\ libPc = "start"
    /\ upPending = <<>>
    /\ upCount = 0
    /\ upClosed = FALSE
    /\ upDone = FALSE
    /\ queued1 = None
    /\ queued2 = None
    /\ tickDeadline = 0
    /\ libOut = <<>>
    /\ libLog = <<>>

LibNext == Produce \/ Close \/ LibStart \/ LibPoll \/ LibPrintFails

(***************************************************************************)
(* The binary (src/main.rs): main, write_blocks, render_blocks and its     *)
(* throttle.  The model runs NSources of its sources; source 1 is          *)
(* render_time, the others are sources of the 5-second kind.               *)
(***************************************************************************)
\* number of sources modelled
NSources == 2

Sources == 1..NSources

\* refresh_period, Duration::from_secs(1), in clock units
RefreshPeriod == 2

\* the period of render_time, in clock units
TimePeriod == 2

\* the period of render_memory_usage and the like, in clock units
SlowPeriod == 10

SrcPeriod(i) == IF i = 1 THEN TimePeriod ELSE SlowPeriod

\* Block::new
MainBlockNew(text) ==
    [full_text |-> text, short_text |-> None, color |-> None,
     background |-> None, border |-> None, urgent |-> FALSE, separator |-> TRUE]

\* CRITICAL_COLOR, palette::named::FIREBRICK
CriticalColor == Rgb(178, 34, 34)

\* Block::critical_if
critical_if(b, yes) ==
    IF yes THEN [b EXCEPT !.background = Some(CriticalColor)] ELSE b

\* the number of blocks of a batch of source i: render_time makes two
Width(i) == IF i = 1 THEN 2 ELSE 1

\* whether the g-th reading of source i is beyond its threshold: the blocks
\* of render_time are never critical, those of the other sources are for
\* every second reading, counted from the index of the source
Critical(i, g) == i > 1 /\ (i + g) % 2 = 1

\* the g-th batch of source i; a source whose lookup fails makes an empty one
SourceBatch(i, g, ok) ==
    IF ok
    THEN [j \in 1..Width(i) |-> critical_if(MainBlockNew(<<i, g, j>>), Critical(i, g))]
    ELSE <<>>

\* serialize_color
serialize_color(color) == IF color.some THEN ColorString(color.val) ELSE <<>>

\* whether the lookup of source i can succeed or fail: render_time has no
\* lookup that fails, render_memory_usage (source 2) has one, and the
\* further sources are of the kind of render_disk_io, which always makes its
\* blocks
Outcomes(i) == IF i = 2 THEN BOOLEAN ELSE {TRUE}

\* the derived Serialize of Block, as a JSON object
SerializeBlock(b) ==
    [full_text |-> JStr(b.full_text),
     urgent |-> JBool(b.urgent),
     separator |-> JBool(b.separator)]
        @@ (IF b.short_text.some THEN "short_text" :> JStr(b.short_text.val) ELSE <<>>)
        @@ (IF b.color.some THEN "color" :> JStr(serialize_color(b.color)) ELSE <<>>)
        @@ (IF b.background.some
            THEN "background" :> JStr(serialize_color(b.background)) ELSE <<>>)
        @@ (IF b.border.some
            THEN "border" :> JStr(serialize_color(b.border)) ELSE <<>>)

\* blocks.iter().flatten(): the batches of slots 1..n, one after the other
RECURSIVE Flatten(_, _)
Flatten(slots, n) ==
    IF n = 0 THEN <<>> ELSE Flatten(slots, n - 1) \o slots[n]

\* render_blocks: the line of the slots, with its comma
RenderLine(slots) ==
    LET flat == Flatten(slots, NSources) IN
    SnapshotLine([k \in 1..Len(flat) |-> SerializeBlock(flat[k])], TRUE)

\* blocks[index] = new_blocks
StoreAll(slots, index, batch) == [i \in Sources |-> batch]

Store(slots, index, batch) == [slots EXCEPT ![index] = batch]

\* t - refresh_time >= refresh_period
DueAlways(t, last) == TRUE

DueStrict(t, last) == t - last > RefreshPeriod

Due(t, last) == t - last >= RefreshPeriod

\* select(write_blocks, ctrl_c) looks at ctrl_c only when write_blocks is
\* pending, that is when it waits for the next arrival
SelectAnywhere(at) == at \in {"await", "render", "flush"}

SelectPolls(at) == at = "await"

\* when select has completed main goes on to the postamble
ExitAtOnce == "done"

AfterSelect == "post"

\* select_all yields the item of any stream that has one, whatever the
\* other streams are doing
JoinAllReady(pcs, i) == \A j \in Sources : pcs[j] = "next"

SelectAllReady(pcs, i) == pcs[i] = "next"

\* select_all yields None when every stream has ended, whether or not the
\* stream ever yielded an item
EndsIfAllProduced(pcs, gens) ==
    \A i \in Sources : pcs[i] = "done" /\ gens[i] > 0

SelectAllEnds(pcs, gens) == \A i \in Sources : pcs[i] = "done"

\* the preamble; then the first poll of write_blocks makes the sources,
\* whose intervals are due at once, and reads the clock
MainStart ==
    /\ program = "main"
    /\ pc = "start"
    /\ out' = out \o Preamble
    /\ srcDeadline' = [i \in Sources |-> now]
    /\ refresh_time' = now
    /\ pc' = "await"
    /\ UNCHANGED <<program, calcVars, sinkError, now, evVars, libVars, sigint, blocks, srcPc, srcGen,
                   partial, lastBatch, arrivals, writes, interruptedAt>>

\* throttle: interval.tick() completes; the next deadline is one period
\* after the last one
SrcTick(i) ==
    /\ program = "main"
    /\ pc = "await"
    /\ srcPc[i] = "tick"
    /\ now >= srcDeadline[i]
    /\ srcPc' = [srcPc EXCEPT ![i] = "next"]
    /\ srcDeadline' = [srcDeadline EXCEPT ![i] = @ + SrcPeriod(i)]
    /\ UNCHANGED <<program, calcVars, sinkError, now, evVars, libVars, pc, sigint, blocks,
                   refresh_time, srcGen, out, partial, lastBatch, arrivals, writes, interruptedAt>>

\* throttle: stream.next() yields a batch, which block_stream.next() hands
\* to the loop of write_blocks; lines 96-100 of it
Arrive(i, ok) ==
    /\ program = "main"
    /\ pc = "await"
    /\ srcPc[i] = "next"
    /\ SelectAllReady(srcPc, i)
    /\ LET batch == SourceBatch(i, srcGen[i] + 1, ok) IN
        /\ srcGen' = [srcGen EXCEPT ![i] = @ + 1]
        /\ srcPc' = [srcPc EXCEPT ![i] = "tick"]
        /\ blocks' = Store(blocks, i, batch)
        /\ lastBatch' = [lastBatch EXCEPT ![i] = Some(batch)]
        /\ arrivals' = Append(arrivals, [index |-> i, at |-> now])
        /\ IF Due(now, refresh_time)
           THEN refresh_time' = now /\ pc' = "render"
           ELSE refresh_time' = refresh_time /\ pc' = "await"
    /\ UNCHANGED <<program, calcVars, sinkError, now, evVars, libVars, sigint, srcDeadline, out,
                   partial, writes, interruptedAt>>

\* throttle: stream.next() yields None, the source ends
SrcEnd(i) ==
    /\ program = "main"
    /\ pc = "await"
    /\ srcPc[i] = "next"
    /\ srcPc' = [srcPc EXCEPT ![i] = "done"]
    /\ UNCHANGED <<program, calcVars, sinkError, now, evVars, libVars, pc, sigint, blocks,
                   refresh_time, srcDeadline, srcGen, out, partial, lastBatch,
                   arrivals, writes, interruptedAt>>

\* render_blocks: println starts the line ...
RenderBlocks ==
    /\ program = "main"
    /\ pc = "render"
    /\ partial' = Some(RenderLine(blocks))
    /\ pc' = "flush"
    /\ UNCHANGED <<program, calcVars, sinkError, now, evVars, libVars, sigint, blocks, refresh_time,
                   srcPc, srcDeadline, srcGen, out, lastBatch, arrivals, writes, interruptedAt>>

\* ... and ends it
EndLine ==
    /\ program = "main"
    /\ pc = "flush"
    /\ out' = Append(out, partial.val)
    /\ partial' = None
    /\ writes' = Append(writes, [at |-> now, last |-> lastBatch])
    /\ pc' = "await"
    /\ UNCHANGED <<program, calcVars, sinkError, now, evVars, libVars, sigint, blocks, refresh_time,
                   srcPc, srcDeadline, srcGen, lastBatch, arrivals, interruptedAt>>

\* the println of render_blocks fails (the reader of the pipe has gone),
\* before the line or at its end: println panics, the panic unwinds
\* write_blocks and main, and the process ends
PrintFails ==
    /\ program = "main"
    /\ pc \in {"render", "flush"}
    /\ pc' = AfterWriteError
    /\ sinkError' = TRUE
    /\ UNCHANGED <<program, calcVars, now, evVars, libVars, sigint, blocks,
                   refresh_time, srcPc, srcDeadline, srcGen, out, partial,
                   lastBatch, arrivals, writes, interruptedAt>>

\* the interrupt fires
Interrupt ==
    /\ program = "main"
    /\ pc \notin {"start", "done", "panicked"}
    /\ ~sigint
    /\ sigint' = TRUE
    /\ interruptedAt' = pc
    /\ UNCHANGED <<program, calcVars, sinkError, now, evVars, libVars, pc, blocks, refresh_time,
                   srcPc, srcDeadline, srcGen, out, partial, lastBatch,
                   arrivals, writes>>

\* select completes with ctrl_c; write_blocks is dropped
Cancel ==
    /\ program = "main"
    /\ SelectPolls(pc)
    /\ sigint
    /\ pc' = AfterSelect
    /\ UNCHANGED <<program, calcVars, sinkError, now, evVars, libVars, sigint, blocks, refresh_time,
                   srcPc, srcDeadline, srcGen, out, partial, lastBatch,
                   arrivals, writes, interruptedAt>>

\* every source has ended: block_stream yields None, write_blocks returns
\* and select completes with it
Finish ==
    /\ program = "main"
    /\ pc = "await"
    /\ SelectAllEnds(srcPc, srcGen)
    /\ pc' = AfterSelect
    /\ UNCHANGED <<program, calcVars, sinkError, now, evVars, libVars, sigint, blocks, refresh_time,
                   srcPc, srcDeadline, srcGen, out, partial, lastBatch,
                   arrivals, writes, interruptedAt>>

\* the two lines of the postamble; main returns
MainEnd ==
    /\ program = "main"
    /\ pc = "post"
    /\ out' = out \o Postamble
    /\ pc' = "done"
    /\ UNCHANGED <<program, calcVars, sinkError, now, evVars, libVars, sigint, blocks, refresh_time,
                   srcPc, srcDeadline, srcGen, partial, lastBatch, arrivals,
                   writes, interruptedAt>>

MainInit ==
    /\ pc = "start"
    /\ sigint = FALSE
    /\ blocks = [i \in Sources |-> <<>>]
    /\ refresh_time = 0
    /\ srcPc = [i \in Sources |-> "tick"]
    /\ srcDeadline = [i \in Sources |-> 0]
    /\ srcGen = [i \in Sources |-> 0]
    /\ out = <<>>
    /\ partial = None
    /\ lastBatch = [i \in Sources |-> None]
    /\ arrivals = <<>>
    /\ writes = <<>>
    /\ interruptedAt = "never"

MainNext ==
    \/ MainStart
    \/ \E i \in Sources : SrcTick(i)
    \/ \E i \in Sources : \E ok \in Outcomes(i) : Arrive(i, ok)
    \/ \E i \in Sources : SrcEnd(i)
    \/ RenderBlocks
    \/ EndLine
    \/ PrintFails
    \/ Interrupt
    \/ Cancel
    \/ Finish
    \/ MainEnd

(***************************************************************************)
(* impl Serialize for Color, on the colours a library block may carry.     *)
(***************************************************************************)
\* the values a channel takes in the model
Channels == {0, 1, 15, 16, 128, 255}

Colours == {Rgb(r, g, b) : r \in Channels, g \in Channels, b \in Channels}

\* Color::from(c).serialize(serializer)
SerializeColor(c) ==
    /\ program = "color"
    /\ ~colorArg.some
    /\ colorArg' = Some(c)
    /\ colorOut' = Some(ColorString(c))
    /\ UNCHANGED <<program, now, sinkError, evVars, libVars, mainVars, cpuVars, memVars,
                 viewVars, netVars>>

ColorInit ==
    /\ colorArg = None
    /\ colorOut = None

ColorNext == \E c \in Colours : SerializeColor(c)

(***************************************************************************)
(* render_cpu_usage: the stream `blocks`, a scan over the readings of      *)
(* heim::cpu::time().  The counters of the system never go back.           *)
(***************************************************************************)
\* number of readings taken
MaxReadings == 3

\* what the counters gain between two readings, in units of time
Gains == {[user |-> u, system |-> s, idle |-> d] : u \in {0, 1}, s \in {0, 1}, d \in {0, 1, 20}}

\* CpuTime::usage, in percent; the quotient is cut to an integer
usage(start, end) ==
    LET user_elapsed == end.user - start.user
        system_elapsed == end.system - start.system
        idle_elapsed == end.idle - start.idle
        busy_elapsed == user_elapsed + system_elapsed
        total_elapsed == busy_elapsed + idle_elapsed
    IN  IF total_elapsed = 0 THEN 0 ELSE (busy_elapsed * 100) \div total_elapsed

\* cpu_usage_block
cpu_usage_block(percent) ==
    critical_if(MainBlockNew(<<"cpu", percent>>), percent >= 95)

\* the closure of scan: a block when this reading and the one before it
\* both succeeded, no block otherwise
ScanLatestOnly(old, new) ==
    IF new.some THEN <<cpu_usage_block(usage(new.val, new.val))>> ELSE <<>>

ScanBlocks(old, new) ==
    IF old.some /\ new.some THEN <<cpu_usage_block(usage(old.val, new.val))>>
    ELSE <<>>

\* one item of the stream: a reading, which succeeds or fails, then the
\* closure of scan
CpuReading(ok, gain) ==
    /\ program = "cpu"
    /\ Len(cpuOut) < MaxReadings
    /\ LET times == [user |-> cpuTimes.user + gain.user,
                     system |-> cpuTimes.system + gain.system,
                     idle |-> cpuTimes.idle + gain.idle]
           new_stats == IF ok THEN Some(times) ELSE None
       IN
        /\ cpuTimes' = times
        /\ cpuOut' = Append(cpuOut, [ok |-> ok, blocks |-> ScanBlocks(old_stats, new_stats)])
        /\ old_stats' = new_stats
    /\ UNCHANGED <<program, now, sinkError, evVars, libVars, mainVars, colVars, memVars,
                 viewVars, netVars>>

CpuInit ==
    /\ cpuTimes = [user |-> 0, system |-> 0, idle |-> 0]
    /\ old_stats = None
    /\ cpuOut = <<>>

CpuNext == \E ok \in BOOLEAN : \E gain \in Gains : CpuReading(ok, gain)

(***************************************************************************)
(* render_memory_usage: the stream `blocks`, one reading of                *)
(* heim::memory::memory() for each item.                                   *)
(***************************************************************************)
\* the readings: the memory of the system and how much of it is available
MemoryStats ==
    {[total |-> 100, available |-> a] : a \in {0, 5, 6, 100}}

\* memory_usage_block
memory_usage_block(mem_stats) ==
    LET total == mem_stats.total
        used == total - mem_stats.available
    IN  critical_if(MainBlockNew(<<"memory", used, total>>), used * 100 >= 95 * total)

\* .ok().map(memory_usage_block).into_iter().collect(): one block of a
\* reading that succeeded, none of one that failed
MemoryBlocks(reading) ==
    IF reading.some THEN <<memory_usage_block(reading.val)>> ELSE <<>>

\* one item of the stream
MemReading(reading) ==
    /\ program = "memory"
    /\ Len(memOut) < MaxReadings
    /\ memOut' = Append(memOut, [ok |-> reading.some, blocks |-> MemoryBlocks(reading)])
    /\ UNCHANGED <<program, now, sinkError, evVars, libVars, mainVars, colVars, cpuVars,
                 viewVars, netVars>>

MemInit == memOut = <<>>

MemNext == \E reading \in {Some(m) : m \in MemoryStats} \cup {None} : MemReading(reading)

(***************************************************************************)
(* Unsigned arithmetic.  u64 and usize are words of WordBits bits and u32  *)
(* is a word of half as many: the widths of the program halved and halved  *)
(* again to what the model checker's integers hold, the arithmetic the     *)
(* same.  A build either checks overflow, and panics on it, or wraps.      *)
(***************************************************************************)
Word == 2 ^ 30

HalfWord == 2 ^ 15

Builds == {"checked", "wrapping"}

\* a * n, wrapped to the word, by doubling: no sum passes twice the word
RECURSIVE wrapping_mul(_, _)
wrapping_mul(a, n) ==
    IF n = 0
    THEN 0
    ELSE LET half == wrapping_mul(a, n \div 2)
             double == (half + half) % Word
         IN  IF n % 2 = 1 THEN (double + a) % Word ELSE double

\* a * n does not fit the word
MulOverflows(a, n) == n > 0 /\ a > (Word - 1) \div n

wrapping_sub(a, b) == (a - b + Word) % Word

\* `x as u32`
AsU32(x) == x % HalfWord

(***************************************************************************)
(* DiskView::render and MemoryView::render, and pie_chart.                 *)
(***************************************************************************)
DiskCritical == 1000000000

MemoryCritical == 500000000

\* DiskView::new and MemoryView::new
ViewNew(kind, u) ==
    [kind |-> kind, usage |-> u, foreground |-> "foreground",
     critical_availability |-> IF kind = "disk" THEN DiskCritical ELSE MemoryCritical,
     critical_background |-> "firebrick"]

\* the usages the views are called on: used is at most total
Amounts == {0, 1, 50, 100, MemoryCritical, DiskCritical,
            (Word - 1) \div 100, (Word - 1) \div 100 + 1, Word - 1}

Usages == {u \in [used : Amounts, total : Amounts] : u.used <= u.total}

Views == {ViewNew(kind, u) : kind \in {"disk", "memory"}, u \in Usages}

SYMBOLS == <<"f0130", "f0a9e", "f0a9f", "f0aa0", "f0aa1", "f0aa2", "f0aa3",
             "f0aa4", "f0aa5">>

Smaller(a, b) == IF a <= b THEN a ELSE b

\* the index pie_chart reads SYMBOLS at, counted from 0
pie_index(percentage) ==
    Smaller((percentage * Len(SYMBOLS)) \div 100, Len(SYMBOLS) - 1)

\* pie_chart: the symbol, or none where the index is outside the table and
\* the indexing panics
pie_chart(percentage) ==
    LET i == pie_index(percentage)
    IN  IF i + 1 \in DOMAIN SYMBOLS THEN Some(SYMBOLS[i + 1]) ELSE None

\* used * 100 / total: none where the build checks overflow and the product
\* overflows, and where total is zero, which panics in every build
UsedPercent(view, build) ==
    IF MulOverflows(view.usage.used, 100) /\ build = "checked"
    THEN None
    ELSE IF view.usage.total = 0
         THEN None
         ELSE Some(wrapping_mul(view.usage.used, 100) \div view.usage.total)

\* render: the block, or none where it panics
render(view, build) ==
    LET available == view.usage.total - view.usage.used
        critical == available < view.critical_availability
        percent == UsedPercent(view, build)
        pie == IF percent.some THEN pie_chart(AsU32(percent.val)) ELSE None
    IN  IF pie.some
        THEN Some([text |-> <<view.kind, view.usage.used, pie.val>>,
                   foreground |-> view.foreground,
                   background |-> IF critical
                                  THEN Some(view.critical_background)
                                  ELSE None])
        ELSE None

Render(view, build) ==
    /\ program = "view"
    /\ ~viewArg.some
    /\ viewArg' = Some(view)
    /\ viewOut' = render(view, build)
    /\ UNCHANGED <<program, now, sinkError, evVars, libVars, mainVars, colVars, cpuVars,
                   memVars, netVars>>

ViewInit ==
    /\ viewArg = None
    /\ viewOut = None

ViewNext == \E view \in Views : \E build \in Builds : Render(view, build)

(***************************************************************************)
(* render_nic_info: the stream `blocks`, an unfold over the captures of    *)
(* NetIoSnapshot.  The counters of an interface never go back; an          *)
(* interface goes down and comes up.                                       *)
(***************************************************************************)
Nics == {"lo", "eth0"}

is_loopback(nic) == nic = "lo"

\* bytes the interfaces carry in the model, all counters together
MaxBytes == 2

ZeroIo == [bytes_written |-> 0, bytes_read |-> 0]

IoAdd(a, b) ==
    [bytes_written |-> a.bytes_written + b.bytes_written,
     bytes_read |-> a.bytes_read + b.bytes_read]

\* impl Sub for IoStats, where the build wraps
IoSub(a, b) ==
    [bytes_written |-> wrapping_sub(a.bytes_written, b.bytes_written),
     bytes_read |-> wrapping_sub(a.bytes_read, b.bytes_read)]

IoSubOverflows(a, b) ==
    a.bytes_written < b.bytes_written \/ a.bytes_read < b.bytes_read

\* impl Sub for NetIoStats
NetSub(a, b) ==
    [loopback |-> IoSub(a.loopback, b.loopback),
     external |-> IoSub(a.external, b.external)]

NetSubOverflows(a, b) ==
    IoSubOverflows(a.loopback, b.loopback) \/ IoSubOverflows(a.external, b.external)

RECURSIVE SumIo(_, _)
SumIo(nics, counters) ==
    IF nics = {}
    THEN ZeroIo
    ELSE LET nic == CHOOSE n \in nics : TRUE
         IN  IoAdd(counters[nic], SumIo(nics \ {nic}, counters))

\* NetIoSnapshot::capture: the counters of the interfaces that are up,
\* summed for the loopback ones and for the others
capture(up, counters) ==
    [loopback |-> SumIo({n \in Nics : up[n] /\ is_loopback(n)}, counters),
     external |-> SumIo({n \in Nics : up[n] /\ ~is_loopback(n)}, counters)]

BytesCarried ==
    LET all == SumIo(Nics, nicCounters) IN all.bytes_written + all.bytes_read

\* an interface sends or receives
Traffic(nic, sent) ==
    /\ program = "net"
    /\ BytesCarried < MaxBytes
    /\ nicCounters' =
         [nicCounters EXCEPT ![nic] =
            IF sent THEN [@ EXCEPT !.bytes_written = @ + 1]
                    ELSE [@ EXCEPT !.bytes_read = @ + 1]]
    /\ UNCHANGED <<program, now, sinkError, evVars, libVars, mainVars, colVars, cpuVars,
                   memVars, viewVars, nicUp, netPc, old_snapshot, netOut>>

\* an interface goes down or comes up
LinkChange(nic) ==
    /\ program = "net"
    /\ nicUp' = [nicUp EXCEPT ![nic] = ~@]
    /\ UNCHANGED <<program, now, sinkError, evVars, libVars, mainVars, colVars, cpuVars,
                   memVars, viewVars, nicCounters, netPc, old_snapshot, netOut>>

\* the first capture, the seed of unfold
NetStart ==
    /\ program = "net"
    /\ netPc = "start"
    /\ netPc' = "stream"
    /\ old_snapshot' = capture(nicUp, nicCounters)
    /\ UNCHANGED <<program, now, sinkError, evVars, libVars, mainVars, colVars, cpuVars,
                   memVars, viewVars, nicUp, nicCounters, netOut>>

\* one item of the stream: a capture and its difference with the one before.
\* A subtraction that underflows panics where the build checks overflow.
NetUnfold(build) ==
    /\ program = "net"
    /\ netPc = "stream"
    /\ LET new_snapshot == capture(nicUp, nicCounters)
       IN  IF NetSubOverflows(new_snapshot, old_snapshot) /\ build = "checked"
           THEN /\ netPc' = "panicked"
                /\ UNCHANGED <<old_snapshot, netOut>>
           ELSE /\ netOut' = Some([old |-> old_snapshot,
                                    new |-> new_snapshot,
                                    diff |-> NetSub(new_snapshot, old_snapshot)])
                /\ old_snapshot' = new_snapshot
                /\ UNCHANGED netPc
    /\ UNCHANGED <<program, now, sinkError, evVars, libVars, mainVars, colVars, cpuVars,
                   memVars, viewVars, nicUp, nicCounters>>

NetInit ==
    /\ nicUp = [nic \in Nics |-> TRUE]
    /\ nicCounters = [nic \in Nics |-> ZeroIo]
    /\ netPc = "start"
    /\ old_snapshot = None
    /\ netOut = None

NetNext ==
    \/ \E nic \in Nics : \E sent \in BOOLEAN : Traffic(nic, sent)
    \/ \E nic \in Nics : LinkChange(nic)
    \/ NetStart
    \/ \E build \in Builds : NetUnfold(build)

(***************************************************************************)
(* The specification.                                                      *)
(***************************************************************************)
Init ==
    /\ program \in {"events", "lib", "main", "color", "cpu", "memory", "view", "net"}
    /\ now = 0
    /\ sinkError = FALSE
    /\ EventsInit
    /\ LibInit
    /\ MainInit
    /\ ColorInit
    /\ CpuInit
    /\ ViewInit
    /\ NetInit
    /\ MemInit

Next ==
    \/ EventsNext
    \/ Tick
    \/ LibNext
    \/ MainNext
    \/ ColorNext
    \/ CpuNext
    \/ MemNext
    \/ ViewNext
    \/ NetNext

Spec == Init /\ [][Next]_vars

\* The runtime polls a task that has been woken, println returns, and the
\* clock advances: a step of the writers that stays possible is taken.
\* Nothing is assumed of the sources, of standard input or of the interrupt.
Fairness ==
    /\ WF_vars(Tick)
    /\ WF_vars(LibStart)
    /\ WF_vars(LibPoll)
    /\ WF_vars(MainStart)
    /\ WF_vars(RenderBlocks)
    /\ WF_vars(EndLine)
    /\ WF_vars(Cancel)
    /\ WF_vars(Finish)
    /\ WF_vars(MainEnd)

\* the two writers, which are the programs that run against the clock
WritersInit == Init /\ program \in {"lib", "main"}

WritersNext == Tick \/ LibNext \/ MainNext

FairSpec == WritersInit /\ [][WritersNext]_vars /\ Fairness

(***************************************************************************)
(* Properties of the event reader and of the message codec.                *)
(***************************************************************************)
Items(lines) == {Some(l) : l \in lines}

\* the tokens of a line that are objects
ObjectsOf(line) == SelectSeq(line, LAMBDA tok : tok.t = "object")

\* item i was a line holding exactly the object o
IsObjectLine(i, o) == linesRead[i] = Some(<<TokObj(o)>>)

\* the clicks, with a mapped button, on a block carrying each message: the
\* lines whose name is the name WireBlock::from gives the block
ClicksOn ==
    [m \in Messages |->
        {Some(<<TokObj(Obj(NameOf(m), b, mods))>>) :
            b \in {1, 2, 3}, mods \in ModifierLists}]

\* C1: round-trip law.  Whenever the reader is given a line whose name is
\* the name WireBlock::from made for a block carrying message m, with a
\* mapped button, Event::try_from returns Ok and the message of the event
\* is m.
C1_RoundTrip ==
    \A i \in 1..Len(linesRead) : \A m \in Messages :
        linesRead[i] \in ClicksOn[m]
            => results[i].some /\ results[i].val.message = m

C1_Witness ==
    \E i \in 1..Len(linesRead) :
        /\ IsObjectLine(i, Obj(NameOf([variant |-> 2, value |-> 65535]), 1, <<>>))
        /\ results[i].some
        /\ results[i].val.message = [variant |-> 2, value |-> 65535]

\* C8: event filtering.  A line that is not JSON, a line with an unmapped
\* button and a line whose name does not decode each yield no event; every
\* well-formed line yields one, whatever came before it; the stream yields
\* exactly the events of the lines that gave one; and the stream ends only
\* when standard input has ended.
C8_EventFiltering ==
    /\ \A i \in 1..Len(linesRead) :
        /\ linesRead[i] \in Items(UnparseableLines \cup UnmappedButtonLines
                                    \cup BadNameLines)
            => ~results[i].some
        /\ linesRead[i] \in Items(WellFormedLines) => results[i].some
    /\ Len(events) = Cardinality({i \in 1..Len(results) : results[i].some})
    /\ evPc = "done" => eof

C8_Witness ==
    /\ Len(linesRead) = 2
    /\ linesRead[1] \in Items(UnmappedButtonLines \cup BadNameLines \cup UnparseableLines)
    /\ linesRead[2] \in Items(WellFormedLines)
    /\ Len(events) = 1
    /\ events[1] = results[2].val

\* C9: separator trimming.  A line made of an event object with a comma
\* before or after it yields the event the object alone yields.
C9_SeparatorTrimmed ==
    \A i \in 1..Len(linesRead) :
        linesRead[i] \in Items(SeparatorLines)
            => /\ EventOfLine(Some(ObjectsOf(linesRead[i].val))).some
               /\ results[i] = EventOfLine(Some(ObjectsOf(linesRead[i].val)))

\* C10: optional modifiers.  A line with a decodable name and a mapped
\* button and no modifiers field yields an event with no modifiers.
C10_ModifiersOptional ==
    \A i \in 1..Len(linesRead) :
        linesRead[i] \in Items(NoModifiersLines)
            => results[i].some /\ results[i].val.modifiers = <<>>

\* the object of a line that holds one, and its fields
ClickOf(i) == ObjectsOf(linesRead[i].val)[1].v

ButtonOf(i) == ClickOf(i).button.v

NameOfClick(i) == ClickOf(i).name.v

ModifiersOf(i) ==
    [k \in 1..Len(ClickOf(i).modifiers.v) |-> ClickOf(i).modifiers.v[k].v]

UndecodableItems == Items(UndecodableLines \cup BadNameLines)

\* C11: decode robustness.  A click whose name is not base64, or decodes
\* to a payload cut short, or to a variant index M does not have, makes
\* Event::try_from return Err: the line yields no event, whatever its
\* button and modifiers, and the reader goes on.
C11_DecodeRobust ==
    /\ \A i \in 1..Len(linesRead) :
        linesRead[i] \in UndecodableItems => results[i] = None
    /\ \A k \in 1..Len(events) : events[k].message \in Messages

C11_Witness ==
    /\ Len(linesRead) = 2
    /\ linesRead[1] \in Items({<<TokObj(Obj(n, 2, <<"Shift">>))>> : n \in TruncatedNames})
    /\ linesRead[2] \in Items({<<TokObj(Obj(n, 2, <<"Shift">>))>> : n \in MismatchedNames})
    /\ results = <<None, None>>
    /\ evPc = "reading"

ClickItems == Items(WellFormedLines \cup MixedModifierLines)

OtherButtonItems == Items(OtherButtonLines \cup UnmappedButtonLines)

\* C12: button mapping.  A click with a decodable name gives an event
\* whose button is left for code 1, middle for 2 and right for 3; a click
\* with any other code gives none; and an event is given only for a line
\* whose name decodes and whose code is 1, 2 or 3.
C12_ButtonMapping ==
    \A i \in 1..Len(linesRead) :
        /\ linesRead[i] \in ClickItems =>
            /\ results[i].some
            /\ results[i].val.button =
                    CASE ButtonOf(i) = 1 -> "MouseLeft"
                      [] ButtonOf(i) = 2 -> "MouseMiddle"
                      [] ButtonOf(i) = 3 -> "MouseRight"
        /\ linesRead[i] \in OtherButtonItems => results[i] = None
        /\ results[i].some =>
            /\ linesRead[i].some
            /\ ObjectsOf(linesRead[i].val) # <<>>
            /\ ButtonOf(i) \in {1, 2, 3}
            /\ NameOfClick(i) \notin UndecodableNames \cup BadNames

C12_Witness ==
    /\ Len(linesRead) = 2
    /\ linesRead[1] \in ClickItems /\ ButtonOf(1) = 2
    /\ results[1].some /\ results[1].val.button = "MouseMiddle"
    /\ linesRead[2] \in OtherButtonItems /\ ButtonOf(2) = 5
    /\ results[2] = None

MixedModifierItems == Items(MixedModifierLines)

\* C13: unknown modifiers.  A click with a decodable name, a mapped button
\* and a list of modifiers holding strings the reader does not know gives
\* an event, whose modifiers are the entries "Shift" of the list, as many
\* as the list has and in its order.
C13_UnknownModifiersDropped ==
    \A i \in 1..Len(linesRead) :
        linesRead[i] \in MixedModifierItems =>
            /\ results[i].some
            /\ results[i].val.modifiers =
                    SelectSeq(ModifiersOf(i), LAMBDA mod : mod = "Shift")

C13_Witness ==
    \E i \in 1..Len(linesRead) :
        /\ IsObjectLine(i, Obj(NameOf(UnitMessage), 3, <<"Shift", "Mod1", "Shift">>))
        /\ results[i].some
        /\ results[i].val.modifiers = <<"Shift", "Shift">>
        /\ results[i].val.button = "MouseRight"

(***************************************************************************)
(* Properties of the two writers.                                          *)
(***************************************************************************)
IsSnapshot(line) == "blocks" \in DOMAIN line

\* the lines o begin with the preamble, which occurs nowhere else; every
\* line after it is a snapshot line, but for the postamble, which is there
\* exactly when the writer has finished, once, as the last two lines
Framed(o, finished) ==
    /\ o # <<>> => Len(o) >= 2 /\ SubSeq(o, 1, 2) = <<Header, TextLine("[")>>
    /\ LET last == IF finished THEN Len(o) - 2 ELSE Len(o) IN
        /\ \A k \in 3..last : IsSnapshot(o[k])
        /\ finished =>
            /\ Len(o) >= 4
            /\ SubSeq(o, Len(o) - 1, Len(o)) = <<TextLine("[]"), TextLine("]")>>

\* C2: protocol framing.  In both writers the output begins with the
\* preamble, written once and before any snapshot line; the postamble is
\* written once, after the last snapshot line, when the writer has finished
\* (in main: by the end of the sources or by the interrupt), and no line
\* follows it.
C2_Framing ==
    /\ program = "main" => Framed(out, pc = "done")
    /\ program = "lib" => Framed(libOut, libPc = "done")
    /\ program = "main" /\ pc # "start" => out # <<>>
    /\ program = "lib" /\ libPc # "start" => libOut # <<>>

C2_Witness ==
    /\ program = "main"
    /\ pc = "done"
    /\ sigint
    /\ Len(out) = 6
    /\ IsSnapshot(out[3]) /\ IsSnapshot(out[4])

EmptyRun ==
    <<TextLine("{ \"version\": 1 }"), TextLine("["), TextLine("[]"), TextLine("]")>>

\* C14: empty run.  When a writer has finished without having written a
\* snapshot line (main: by the interrupt or by the end of its sources;
\* serialize_blocks: by the end of its stream), its whole output is the four
\* lines { "version": 1 }, [, [] and ], in this order.
C14_EmptyRun ==
    /\ program = "main" /\ pc = "done" /\ writes = <<>> => out = EmptyRun
    /\ program = "lib" /\ libPc = "done" /\ libLog = <<>> => libOut = EmptyRun

C14_Witness ==
    /\ program = "main"
    /\ pc = "done"
    /\ interruptedAt = "await"
    /\ Len(arrivals) >= 1
    /\ writes = <<>>
    /\ out = EmptyRun

\* a step that takes a tick, late or not, leaves the next deadline of the
\* interval in the future: no second tick is due at the same instant
MissedTicksSkipped ==
    /\ program = "lib" /\ tickDeadline' # tickDeadline => tickDeadline' > now
    /\ program = "main" =>
        \A i \in Sources :
            srcPc[i] = "tick" /\ srcPc'[i] = "next" => srcDeadline'[i] > now

\* C15: no backlog of ticks.  When a tick is taken after one or more
\* period boundaries have gone by, in ticks() as in the throttle of main,
\* the ticks missed are skipped: the next tick is due at the next period
\* boundary, not at once, so that no run of ticks follows to catch up.
C15_NoBacklog == [][MissedTicksSkipped]_vars

\* main has left the loop of write_blocks
Stopped == pc \in {"post", "done"}

\* no arrival is consumed, no slot changes and no snapshot line is written
StaysStopped ==
    /\ arrivals' = arrivals
    /\ blocks' = blocks
    /\ writes' = writes
    /\ pc' \in {"post", "done"}

\* C3: cancellation race.  Wherever the loop is when the interrupt fires,
\* main reaches the postamble with no line left unfinished: every line
\* started is in the output, whole; from then on no arrival is consumed and
\* no snapshot line is written; and when main has ended the output ends
\* with the postamble.
C3_Cancellation ==
    /\ [](program = "main" =>
            /\ pc \in {"post", "done"} => partial = None
            /\ pc = "post" => Len(out) = 2 + Len(writes)
            /\ pc = "done" =>
                /\ Len(out) = 4 + Len(writes)
                /\ SubSeq(out, Len(out) - 1, Len(out)) = Postamble)
    /\ [][Stopped => StaysStopped]_vars

C3_Witness ==
    /\ program = "main"
    /\ pc = "done"
    /\ interruptedAt = "flush"
    /\ Len(writes) >= 1
    /\ SubSeq(out, Len(out) - 1, Len(out)) = Postamble

\* the number an item of `blocks` carries as its text
ItemNo(batch) == batch[1].text

\* C4, as stated: the item of every snapshot line is the latest item the
\* stream had produced when the line was written.
C4_LastValueWins ==
    \A k \in 1..Len(libLog) : ItemNo(libLog[k].item) = libLog[k].latest

\* C4, amended: the library throttle drops nothing.  The k-th line written
\* carries the k-th item the stream produced, also when a newer item was
\* ready at the tick.
C4_EveryItemInOrder ==
    \A k \in 1..Len(libLog) : libLog[k].item = BatchOf(k)

C4_Witness ==
    /\ Len(libLog) = 2
    /\ libLog[1].at < LibPeriod
    /\ libLog[1].latest >= 2
    /\ ItemNo(libLog[1].item) = 1
    /\ ItemNo(libLog[2].item) = 2

\* C5: output cadence.  The lines of serialize_blocks are paired with
\* distinct ticks of its timer, a period apart, and two snapshot lines of
\* write_blocks are never less than refresh_period apart.
C5_Cadence ==
    /\ \A j \in 1..Len(libLog) : \A k \in 1..Len(libLog) :
        j < k => libLog[k].tick - libLog[j].tick >= LibPeriod
    /\ \A j \in 1..Len(writes) : \A k \in 1..Len(writes) :
        j < k => writes[k].at - writes[j].at >= RefreshPeriod

C5_Witness ==
    /\ program = "main"
    /\ pc = "await"
    /\ Len(writes) = 2
    /\ Len(arrivals) >= 4
    /\ writes[2].at - writes[1].at = RefreshPeriod

\* the blocks of the batches `last` of sources 1..n, in the order of the
\* sources; a source that sent nothing has none
RECURSIVE ConcatLast(_, _)
ConcatLast(last, n) ==
    IF n = 0 THEN <<>>
    ELSE ConcatLast(last, n - 1) \o (IF last[n].some THEN last[n].val ELSE <<>>)

ExpectedLine(last) ==
    LET all == ConcatLast(last, NSources) IN
    [blocks |-> [k \in 1..Len(all) |-> SerializeBlock(all[k])], comma |-> TRUE]

\* C6: combine-latest content.  Every snapshot line is made of the batch
\* each source sent last before the line was written, in the order of the
\* sources, a source that sent nothing contributing nothing; and each slot
\* holds what its own source sent last.
C6_CombineLatest ==
    program = "main" =>
        /\ \A k \in 1..Len(writes) : out[2 + k] = ExpectedLine(writes[k].last)
        /\ \A i \in Sources :
            blocks[i] = IF lastBatch[i].some THEN lastBatch[i].val ELSE <<>>

C6_Witness ==
    /\ program = "main"
    /\ Len(writes) = 2
    /\ ~writes[1].last[2].some
    /\ writes[2].last[2].some /\ writes[2].last[2].val # <<>>
    /\ writes[2].last[1] # writes[1].last[1]
    /\ out[4] = ExpectedLine(writes[2].last)

\* C7, as stated: a snapshot line is written for every arrival.
C7_LineForEveryArrival ==
    program = "main" /\ pc = "await" => Len(writes) = Len(arrivals)

\* the instants of the arrivals arr[k..] that come at least refresh_period
\* after `last`, the instant of the line written last
RECURSIVE Refreshes(_, _, _)
Refreshes(arr, k, last) ==
    IF k > Len(arr) THEN <<>>
    ELSE IF arr[k].at - last >= RefreshPeriod
         THEN <<arr[k].at>> \o Refreshes(arr, k + 1, arr[k].at)
         ELSE Refreshes(arr, k + 1, last)

\* C7, amended: a snapshot line is written only on an arrival, and for
\* exactly the arrivals that come at least refresh_period after the line
\* written last (after the start, for the first line).
C7_LineForDueArrivals ==
    program = "main" /\ pc \in {"await", "post", "done"} =>
        [k \in 1..Len(writes) |-> writes[k].at] = Refreshes(arrivals, 1, 0)

C7_Witness ==
    /\ program = "main"
    /\ pc = "await"
    /\ Len(arrivals) = 3
    /\ Len(writes) = 2
    /\ arrivals[1].at = 0
    /\ writes[1].at = arrivals[2].at
    /\ writes[2].at = arrivals[3].at

\* C16: order preservation.  The items the library throttle hands over
\* come in the order in which the stream produced them, none before an
\* older one, and serialize_blocks writes their lines in the order in which
\* it receives them: the k-th snapshot line is the line of the k-th item
\* handed over.
C16_OrderPreserved ==
    program = "lib" =>
        /\ \A j \in 1..Len(libLog) : \A k \in 1..Len(libLog) :
            j < k => ItemNo(libLog[j].item) < ItemNo(libLog[k].item)
        /\ \A k \in 1..Len(libLog) : libOut[2 + k] = LibLine(libLog[k].item)
        /\ Len(libOut) = Len(libLog) + (IF libPc = "start" THEN 0
                                        ELSE IF libPc = "done" THEN 4 ELSE 2)

C16_Witness ==
    /\ program = "lib"
    /\ Len(libLog) = 3
    /\ libLog[1].latest = 3
    /\ [k \in 1..3 |-> ItemNo(libLog[k].item)] = <<1, 2, 3>>
    /\ libOut[5] = LibLine(BatchOf(3))

\* C17: slow source.  A tick that finds no new item makes the throttle
\* wait for the next item instead of handing over an old one again: every
\* item the stream has produced has been handed over once, or is held for
\* the next tick, or is still in the stream, so that there are never more
\* lines than items; an item is handed over only after it was produced;
\* and each source of main has handed over as many batches as its stream
\* has yielded.
C17_SlowSource ==
    /\ program = "lib" =>
        /\ Len(libLog) + Len(upPending) + (IF queued1.some THEN 1 ELSE 0) = upCount
        /\ \A k \in 1..Len(libLog) : ItemNo(libLog[k].item) <= libLog[k].latest
        /\ \A j \in 1..Len(libLog) : \A k \in 1..Len(libLog) :
            j # k => libLog[j].item # libLog[k].item
    /\ program = "main" =>
        \A i \in Sources :
            Cardinality({k \in 1..Len(arrivals) : arrivals[k].index = i}) = srcGen[i]

C17_Witness ==
    /\ program = "lib"
    /\ Len(libLog) = 2
    /\ libLog[1].at = 0
    /\ libLog[2].tick = LibPeriod
    /\ libLog[2].at = 2 * LibPeriod
    /\ ItemNo(libLog[2].item) = 2

\* the fields a library block must have on the wire
WireFields(b) ==
    {"name", "full_text", "color", "urgent", "separator"}
        \cup {f \in {"background", "border"} : b[f].some}

\* the fields of a block of the binary that are set to something
SetFields(b, optional) == {f \in optional : b[f].some}

\* every block of a line of serialize_blocks has the fields WireFields and
\* no other
LibFieldsRight ==
    \A k \in 1..Len(libLog) : \A j \in 1..Len(libLog[k].item) :
        DOMAIN libOut[2 + k].blocks[j] = WireFields(libLog[k].item[j])

\* every block of a line of render_blocks has the fields `always`, those
\* of `optional` that are set, and no other
MainFieldsRight(always, optional) ==
    \A k \in 1..Len(writes) :
        LET all == ConcatLast(writes[k].last, NSources) IN
        \A j \in 1..Len(all) :
            DOMAIN out[2 + k].blocks[j] = always \cup SetFields(all[j], optional)

\* C18, as stated: every serialised block has a color field, set or not;
\* background, border, instance and short_text are there exactly when they
\* are set; urgent and separator (and name, for a library block) are always
\* there.
C18_ColorNeverOmitted ==
    /\ program = "lib" => LibFieldsRight
    /\ program = "main" =>
        MainFieldsRight({"full_text", "color", "urgent", "separator"},
                        {"short_text", "background", "border"})

\* C18, amended: a library block always has name, full_text, color, urgent
\* and separator, has background and border exactly when they are set and
\* never has instance or short_text; a block of the binary always has
\* full_text, urgent and separator, and has color, like short_text,
\* background and border, exactly when it is set.
C18_FieldPresence ==
    /\ program = "lib" => LibFieldsRight
    /\ program = "main" =>
        MainFieldsRight({"full_text", "urgent", "separator"},
                        {"short_text", "color", "background", "border"})

C18_Witness ==
    /\ program = "lib"
    /\ Len(libLog) = 3
    /\ DOMAIN libOut[3].blocks[1] = {"name", "full_text", "color", "urgent", "separator"}
    /\ DOMAIN libOut[4].blocks[1] =
            {"name", "full_text", "color", "background", "urgent", "separator"}
    /\ DOMAIN libOut[5].blocks[1] =
            {"name", "full_text", "color", "border", "urgent", "separator"}

LowerHex ==
    <<"0", "1", "2", "3", "4", "5", "6", "7", "8", "9", "a", "b", "c", "d", "e", "f">>

IsLowerHex(ch) == \E i \in 1..16 : LowerHex[i] = ch

HexValue(ch) == (CHOOSE i \in 1..16 : LowerHex[i] = ch) - 1

\* str is # followed by two lower-case hexadecimal digits for each of the
\* channels of c: red, green, blue
IsHexColor(str, c) ==
    /\ Len(str) = 7
    /\ str[1] = "#"
    /\ \A i \in 2..7 : IsLowerHex(str[i])
    /\ 16 * HexValue(str[2]) + HexValue(str[3]) = c.red
    /\ 16 * HexValue(str[4]) + HexValue(str[5]) = c.green
    /\ 16 * HexValue(str[6]) + HexValue(str[7]) = c.blue

\* the colour strings of the lines written are those of the colours set on
\* the blocks
WrittenColoursRight ==
    /\ program = "lib" =>
        \A k \in 1..Len(libLog) : \A j \in 1..Len(libLog[k].item) :
            LET b == libLog[k].item[j]
                w == libOut[2 + k].blocks[j]
            IN  /\ IsHexColor(w.color.v, b.foreground)
                /\ b.background.some => IsHexColor(w.background.v, b.background.val)
                /\ b.border.some => IsHexColor(w.border.v, b.border.val)
    /\ program = "main" =>
        \A k \in 1..Len(writes) :
            LET all == ConcatLast(writes[k].last, NSources) IN
            \A j \in 1..Len(all) : \A f \in {"color", "background", "border"} :
                all[j][f].some => IsHexColor(out[2 + k].blocks[j][f].v, all[j][f].val)

ColourCallRight ==
    program = "color" /\ colorArg.some =>
        /\ IsHexColor(colorOut.val, colorArg.val)
        /\ colorArg.val = Rgb(255, 0, 128)
            => colorOut.val = <<"#", "f", "f", "0", "0", "8", "0">>

\* C19, as stated: a colour (r, g, b) is written as #rrggbb, two lower-case
\* hexadecimal digits for each channel, (255, 0, 128) as #ff0080; and a
\* colour field that is not set is written as the empty string.
C19_UnsetIsEmptyString ==
    /\ ColourCallRight
    /\ WrittenColoursRight
    /\ program = "main" =>
        \A k \in 1..Len(writes) :
            LET all == ConcatLast(writes[k].last, NSources) IN
            \A j \in 1..Len(all) :
                ~all[j].color.some =>
                    /\ "color" \in DOMAIN out[2 + k].blocks[j]
                    /\ out[2 + k].blocks[j].color = JStr(<<>>)

\* C19, amended: a colour (r, g, b) is written as #rrggbb, two lower-case
\* hexadecimal digits for each channel, (255, 0, 128) as #ff0080; a colour
\* field that is not set is not written at all, so that no block written
\* carries the empty string as a colour.
C19_ColorEncoding ==
    /\ ColourCallRight
    /\ WrittenColoursRight
    /\ program = "main" =>
        \A k \in 1..Len(writes) : \A j \in 1..Len(out[2 + k].blocks) :
            \A f \in {"color", "background", "border"} :
                f \in DOMAIN out[2 + k].blocks[j]
                    => out[2 + k].blocks[j][f] # JStr(<<>>)

C19_Witness ==
    /\ program = "color"
    /\ colorArg = Some(Rgb(255, 0, 128))
    /\ colorOut = Some(<<"#", "f", "f", "0", "0", "8", "0">>)

\* a batch of source i that its stream has ready is taken by the loop
\* whatever the other sources are doing
OthersAccepted ==
    program = "main" /\ pc = "await" =>
        \A i \in Sources : srcPc[i] = "next" => ENABLED Arrive(i, TRUE)

\* a step changes the slot of a source only by an arrival from that source
OnlyOwnSlot ==
    \A i \in Sources :
        blocks'[i] # blocks[i] =>
            /\ Len(arrivals') = Len(arrivals) + 1
            /\ arrivals'[Len(arrivals')].index = i

AllSourcesDone == \A i \in Sources : srcPc[i] = "done"

\* the stream of serialize_blocks has ended and the throttle holds none of
\* its items
LibDrained ==
    /\ program = "lib"
    /\ libPc = "loop"
    /\ upClosed
    /\ upPending = <<>>
    /\ ~queued1.some

\* the blocks of the batches `last` of the sources other than i
ExpectedWithout(last, i) == ExpectedLine([last EXCEPT ![i] = None])

\* a source that has ended without a batch has an empty slot and no block
\* in any line
SilentSourceAbsent ==
    program = "main" =>
        \A i \in Sources :
            srcPc[i] = "done" /\ srcGen[i] = 0 =>
                /\ blocks[i] = <<>>
                /\ \A k \in 1..Len(writes) :
                    out[2 + k] = ExpectedWithout(writes[k].last, i)

\* C21: termination.  Once every source of main has ended, write_blocks
\* returns and main writes the postamble and ends; the loop is left in no
\* other way but the interrupt; a source that ended without a batch has no
\* block in any line and does not keep main from ending; and once the stream
\* of serialize_blocks has ended, with no item held, serialize_blocks writes
\* the postamble and ends.
C21_Termination ==
    /\ (program = "main" /\ AllSourcesDone) ~> (pc = "done")
    /\ LibDrained ~> (libPc = "done")
    /\ [](program = "main" /\ pc \in {"post", "done"} /\ ~sigint => AllSourcesDone)
    /\ []SilentSourceAbsent

C21_Witness ==
    /\ program = "main"
    /\ pc = "done"
    /\ ~sigint
    /\ AllSourcesDone
    /\ srcGen[2] = 0
    /\ srcGen[1] = 2
    /\ Len(writes) = 1
    /\ Len(out[3].blocks) = Width(1)
    /\ SubSeq(out, Len(out) - 1, Len(out)) = Postamble

\* the blocks of a snapshot line that source i made
BlocksFrom(line, i) == SelectSeq(line.blocks, LAMBDA b : b.full_text.v[1] = i)

\* every line written has no block of a source whose last batch was empty,
\* and the blocks of the last batch of every other source; the slot of a
\* source whose last batch was empty is empty; and the batch that arrived
\* last is the empty one or the blocks of that reading
AggregateOmitsFailed ==
    program = "main" =>
        /\ \A k \in 1..Len(writes) : \A i \in Sources :
            LET last == writes[k].last[i]
                mine == BlocksFrom(out[2 + k], i)
            IN  /\ ~last.some \/ last = Some(<<>>) => mine = <<>>
                /\ last.some => mine = [j \in 1..Len(last.val) |-> SerializeBlock(last.val[j])]
        /\ \A i \in Sources :
            /\ lastBatch[i] = Some(<<>>) => blocks[i] = <<>>
            /\ lastBatch[i].some =>
                lastBatch[i].val \in {<<>>, SourceBatch(i, srcGen[i], TRUE)}
            /\ lastBatch[i] = Some(<<>>) => FALSE \in Outcomes(i)

\* a reading of the memory that fails gives no block, one that succeeds
\* gives one, whatever the readings before it
MemoryBatchesRight ==
    \A k \in 1..Len(memOut) :
        /\ ~memOut[k].ok => memOut[k].blocks = <<>>
        /\ memOut[k].ok => Len(memOut[k].blocks) = 1

\* C22, as stated: a lookup that fails gives an empty batch, which the
\* aggregate takes like any other, so that the lines written have no block
\* of that source; and the blocks are back with the next lookup of the
\* source that succeeds.
C22_BackAtNextSuccess ==
    /\ AggregateOmitsFailed
    /\ MemoryBatchesRight
    /\ \A k \in 1..Len(cpuOut) :
        /\ ~cpuOut[k].ok => cpuOut[k].blocks = <<>>
        /\ k > 1 /\ cpuOut[k].ok => Len(cpuOut[k].blocks) = 1

\* C22, amended: a lookup that fails gives an empty batch, which the
\* aggregate takes like any other, so that the lines written have no block
\* of that source.  The blocks of render_memory_usage are back with its
\* next lookup that succeeds; those of render_cpu_usage, which shows the
\* difference of two readings, are back with the second of two lookups in
\* a row that succeed: its batch is empty for the first reading and for
\* the reading after one that failed.
C22_SourceErrors ==
    /\ AggregateOmitsFailed
    /\ MemoryBatchesRight
    /\ \A k \in 1..Len(cpuOut) :
        /\ ~cpuOut[k].ok => cpuOut[k].blocks = <<>>
        /\ k = 1 \/ (k > 1 /\ ~cpuOut[k - 1].ok) => cpuOut[k].blocks = <<>>
        /\ k > 1 /\ cpuOut[k].ok /\ cpuOut[k - 1].ok =>
            /\ Len(cpuOut[k].blocks) = 1
            /\ cpuOut[k].blocks[1].full_text[2] \in 0..100

C22_Witness ==
    /\ program = "cpu"
    /\ Len(cpuOut) = 3
    /\ ~cpuOut[1].ok /\ cpuOut[2].ok /\ cpuOut[3].ok
    /\ cpuOut[2].blocks = <<>>
    /\ cpuOut[3].blocks = <<cpu_usage_block(100)>>

\* a step of the loop of write_blocks, of render_blocks or of the end of
\* main is possible
MainCanStep ==
    ENABLED (\/ \E i \in Sources : SrcTick(i) \/ SrcEnd(i) \/ Arrive(i, TRUE)
             \/ RenderBlocks \/ EndLine \/ Cancel \/ Finish \/ MainEnd)

\* a step of serialize_blocks is possible
LibCanStep == ENABLED (LibStart \/ LibPoll)

\* once a write has failed the writer has come to its end by the panic: no
\* step of it is possible, and the output is the preamble and the lines
\* written before, with no postamble
StoppedByFailure ==
    /\ sinkError /\ program = "main" =>
        /\ ~MainCanStep
        /\ Len(out) = 2 + Len(writes)
        /\ Framed(out, FALSE)
    /\ sinkError /\ program = "lib" =>
        /\ ~LibCanStep
        /\ Len(libOut) = 2 + Len(libLog)
        /\ Framed(libOut, FALSE)

\* C23, as stated: a write of a line that fails is fatal: the loop stops,
\* no further snapshot line is written, and the writer goes to the
\* postamble, which it attempts to write before it ends.
C23_PostambleAttempted ==
    /\ sinkError /\ program = "main" => ~MainCanStep \/ pc \in {"post", "done"}
    /\ sinkError /\ program = "main" => pc \in {"post", "done"}
    /\ sinkError /\ program = "lib" => libPc = "done"

\* C23, amended: a write of a line that fails is fatal: println panics, the
\* writer stops where it stands, no further snapshot line is written, and
\* the postamble is neither written nor attempted.
C23_WriteFailureFatal ==
    /\ StoppedByFailure
    /\ sinkError /\ program = "main" => pc = "panicked"
    /\ sinkError /\ program = "lib" => libPc = "panicked"
    /\ (pc = "panicked" \/ libPc = "panicked") => sinkError

C23_Witness ==
    /\ program = "main"
    /\ sinkError
    /\ pc = "panicked"
    /\ Len(writes) = 1
    /\ partial.some
    /\ Len(arrivals) >= 3
    /\ out = Preamble \o <<ExpectedLine(writes[1].last)>>

\* the batch source i sent last is in no line: none was written since
Unwritten(i) ==
    /\ lastBatch[i].some
    /\ writes = <<>> \/ writes[Len(writes)].last[i] # lastBatch[i]

\* no source has a batch to hand over or a tick that is due
NoArrivalPending ==
    \A i \in Sources :
        srcPc[i] = "done" \/ (srcPc[i] = "tick" /\ now < srcDeadline[i])

\* whether the last of the arrivals arr[k..] comes at least refresh_period
\* after the line written last before it; `last` is the instant of the line
\* written last before arr[k] (of the start, if there is none)
RECURSIVE LatestDue(_, _, _)
LatestDue(arr, k, last) ==
    LET due == arr[k].at - last >= RefreshPeriod IN
    IF k = Len(arr) THEN due
    ELSE LatestDue(arr, k + 1, IF due THEN arr[k].at ELSE last)

RECURSIVE EventsOf(_, _)
EventsOf(res, k) ==
    IF k > Len(res) THEN <<>>
    ELSE (IF res[k].some THEN <<res[k].val>> ELSE <<>>) \o EventsOf(res, k + 1)

\* what the closure gives for each item of the line stream
ClosureOn == [item \in StdinItems |-> EventOfLine(item)]

\* C25: event order.  The closure is run once on every line read, in the
\* order of the lines, and gives at most one event for it; the events the
\* stream has yielded are the events of the lines that gave one, in the
\* order of the lines, so that they are never more than the lines.
C25_EventOrder ==
    program = "events" =>
        /\ Len(results) = Len(linesRead)
        /\ \A i \in 1..Len(linesRead) : results[i] = ClosureOn[linesRead[i]]
        /\ events = EventsOf(results, 1)
        /\ Len(events) <= Len(linesRead)

C25_Witness ==
    /\ program = "events"
    /\ Len(linesRead) = 2
    /\ results[1].some /\ results[2].some
    /\ results[1].val.message = [variant |-> 2, value |-> 65535]
    /\ results[2].val.message = UnitMessage
    /\ results[2].val.button = "MouseRight"
    /\ events = <<results[1].val, results[2].val>>

\* the clock of the model has reached its last instant with no tick held
\* and none due
TicksExhausted == now = MaxTime /\ ~queued2.some /\ tickDeadline > now

\* every item the stream has produced has been handed over and written
CaughtUp == Len(libLog) = upCount

\* the k-th item handed over is the k-th item of the stream, with a tick
\* later than the tick of the item before it
PairedInOrder ==
    \A k \in 1..Len(libLog) :
        /\ libLog[k].item = BatchOf(k)
        /\ k > 1 => libLog[k].tick > libLog[k - 1].tick

\* the throttle has ended only if the stream has, with every item of it
\* handed over
EndsAfterStream ==
    libPc = "done" => upClosed /\ upDone /\ CaughtUp /\ ~queued1.some

\* C26: the library throttle loses nothing.  The k-th item handed over is
\* the k-th item of the stream, each with a tick of its own; as long as
\* ticks fire and the writes succeed, every item the stream has produced
\* is handed over, the last one before the end of the stream too, and then
\* the throttle ends; and it ends only after the stream has ended and all
\* its items are handed over.
C26_ThrottleLosesNothing ==
    /\ [](program = "lib" => PairedInOrder /\ EndsAfterStream)
    /\ []<>(program = "lib" => CaughtUp \/ sinkError \/ TicksExhausted)
    /\ (program = "lib" /\ upClosed)
            ~> (libPc = "done" \/ sinkError \/ TicksExhausted)

C26_Witness ==
    /\ program = "lib"
    /\ libPc = "done"
    /\ upCount = MaxItems
    /\ Len(libLog) = MaxItems
    /\ libLog[1].latest = MaxItems
    /\ libLog[MaxItems].item = BatchOf(MaxItems)
    /\ libLog[MaxItems].tick > libLog[1].tick

\* C27: DiskView::render and MemoryView::render give a block, without a
\* panic, for every usage with used at most total, a total of zero
\* included, and the percentage they pass to pie_chart reads a symbol
\* inside the table.
C27_RenderNeverPanics ==
    program = "view" /\ viewArg.some =>
        /\ viewArg.val.usage.used <= viewArg.val.usage.total
        /\ viewOut.some
        /\ \E i \in DOMAIN SYMBOLS : viewOut.val.text[3] = SYMBOLS[i]

\* C28: for two successive captures of NetIoSnapshot the subtraction
\* new.stats - old.stats does not underflow, whether or not the set of
\* interfaces that are up changed between them: no item panics and each
\* difference is the difference of the sums.
C28_NoUnderflow ==
    program = "net" =>
        /\ netPc # "panicked"
        /\ netOut.some => ~NetSubOverflows(netOut.val.new, netOut.val.old)

====
